---- MODULE Spec2Model ----
(***************************************************************************)
(* A model of the aosbot FastAPI service: the Airtable data-access layer   *)
(* (src/database/airtable_connect.py) and the HTTP layer (src/main.py).    *)
(*                                                                         *)
(* Text is a sequence of code points, a field value is none, a string or a *)
(* list of strings, and a record is an identifier with its name, id and    *)
(* update-flag fields.  The remote table service is state of the model.    *)
(***************************************************************************)
EXTENDS Integers, Sequences, FiniteSets, TLC

VARIABLES
    records,    \* the remote table, in listing order
    checking,   \* the second remote table of get_client_database
    comments,   \* the record ids commented on, in order of creation
    phase,      \* position of lifespan(): "init", "serving", "terminated"
    pool,       \* db_pool: "none", "open", "closed"
    req,        \* per worker thread: the request it is handling
    nreq,       \* requests accepted so far
    hits,       \* limiter storage: (route, address) -> calls in the window
    last,       \* what the last operation applied to its inputs returned
    query       \* the (client_full_name, client_id) pair of a direct call

vars == <<records, checking, comments, phase, pool, req, nreq, hits, last, query>>

----------------------------------------------------------------------------
(* Bounds *)

MaxRecords == 3       \* records per remote table
PageSize == 2         \* records per page of the listing endpoint
MaxRequests == 2      \* requests accepted in one run
Overrun == 1          \* calls followed past a route's ceiling in one window
Burst == 2            \* calls followed on a second limiter key meanwhile

----------------------------------------------------------------------------
(* Text and unicodedata.normalize("NFKC", .) *)

\* canonical/compatibility decomposition of one code point
DecompOf(c) ==
    CASE c = "U00E9" -> <<"e", "U0301">>      \* e-acute -> e + combining acute
      [] c = "UFB01" -> <<"f", "i">>          \* fi ligature (compatibility)
      [] OTHER -> <<c>>

RECURSIVE Decompose(_)
Decompose(s) ==
    IF s = <<>> THEN <<>> ELSE DecompOf(Head(s)) \o Decompose(Tail(s))

\* canonical composition of a starter with the combining mark after it
RECURSIVE Compose(_)
Compose(s) ==
    IF Len(s) < 2 THEN s
    ELSE IF s[1] = "e" /\ s[2] = "U0301"
         THEN <<"U00E9">> \o Compose(Tail(Tail(s)))
         ELSE <<s[1]>> \o Compose(Tail(s))

NFKC(s) == Compose(Decompose(s))

----------------------------------------------------------------------------
(* Field values: None, a str, or a list of str *)

NoneV == [kind |-> "none", items |-> <<>>]
StrV(t) == [kind |-> "str", items |-> <<t>>]
ListV(ts) == [kind |-> "list", items |-> ts]

\* Python truthiness of a field value
Truthy(v) ==
    CASE v.kind = "none" -> FALSE
      [] v.kind = "str" -> v.items[1] # <<>>
      [] OTHER -> v.items # <<>>

\* s in t for two str: substring test
IsSubstring(s, t) ==
    \E i \in 0..(Len(t) - Len(s)) : SubSeq(t, i + 1, i + Len(s)) = s

----------------------------------------------------------------------------
(* Records and the inputs drawn for them *)

RecId(i) == <<"rec", i>>
NoId == <<"rec", 0>>

A1 == <<"A", "1">>
A12 == <<"A", "1", "2">>

Jose == <<"J", "o", "s", "e">>
JoseNFD == <<"J", "o", "s", "e", "U0301">>
JoseNFC == <<"J", "o", "s", "U00E9">>
Fi == <<"f", "i">>
FiLig == <<"UFB01">>

QueryNames == {Jose, JoseNFC, Fi}
QueryIds == {A1, A12}
Queries == [name : QueryNames, cid : QueryIds]

MatchNameValues == {NoneV, StrV(Jose), StrV(JoseNFD), StrV(FiLig)}
MatchIdValues == {NoneV, StrV(A1), StrV(A12), ListV(<<A12, A1>>)}

Bob == <<"Bob">>
Robert == <<"Robert">>

MainNameValues == {StrV(Bob), StrV(Robert)}
MainIdValues == {StrV(A1), StrV(A12)}
CheckingNameValues == {StrV(Bob), StrV(Robert), ListV(<<Bob>>)}
CheckingIdValues == {StrV(A1), ListV(<<A1>>), ListV(<<A1, A12>>)}

\* the tables of up to n records whose fields are drawn from the given set
TablesOf(n, fields) ==
    UNION {
        {[i \in 1..k |-> [id |-> RecId(i), name |-> f[i].name, cid |-> f[i].cid,
                          upd |-> f[i].upd]] :
            f \in [1..k -> fields]}
        : k \in 0..n}

----------------------------------------------------------------------------
(* GetAirTables.get_record_id *)

Found(id) == [kind |-> "found", id |-> id]
NotFound == [kind |-> "none", id |-> NoId]
Raised == [kind |-> "raised", id |-> NoId]

\* name = unicodedata.normalize('NFKC', name) if name else None
\* (normalize raises TypeError on a list)
NormalizeRaises(v) == Truthy(v) /\ v.kind = "list"
Normalized(v) == IF Truthy(v) THEN StrV(NFKC(v.items[1])) ELSE NoneV

\* client_id in client_ids: TypeError on None, substring on a str,
\* membership on a list
ContainsRaises(v) == v.kind = "none"
Contains(cid, v) ==
    IF v.kind = "str" THEN IsSubstring(cid, v.items[1])
    ELSE \E i \in 1..Len(v.items) : v.items[i] = cid

\* the loop of get_record_id over the listed records
RECURSIVE RecordIdScan(_, _)
RecordIdScan(recs, q) ==
    IF recs = <<>> THEN NotFound
    ELSE LET r == Head(recs) IN
         IF NormalizeRaises(r.name) THEN Raised
         ELSE IF Normalized(r.name) = StrV(q.name)
              THEN IF ContainsRaises(r.cid) THEN Raised
                   ELSE IF Contains(q.cid, r.cid) THEN Found(r.id)
                   ELSE RecordIdScan(Tail(recs), q)
              ELSE RecordIdScan(Tail(recs), q)

\* get_record_id: the identifier, or None (NoId) when nothing matched or
\* anything raised, the listing call included
GetRecordId(recs, q, listingFails) ==
    IF listingFails THEN NoId
    ELSE LET out == RecordIdScan(recs, q) IN
         IF out.kind = "found" THEN out.id ELSE NoId

----------------------------------------------------------------------------
(* The remote listing endpoint *)

\* at.get(table_id): one request, so the first page only
FirstPage(recs) ==
    SubSeq(recs, 1, IF Len(recs) < PageSize THEN Len(recs) ELSE PageSize)

\* at.iterate(table_id): follows the offsets through every page
AllPages(recs) == recs

----------------------------------------------------------------------------
(* GetAirTables.verify_update_tables *)

IdNotFound == StrV(<<"ID not found">>)
UnknownName == StrV(<<"Unknown Name">>)

\* one line per listed record: status, client_id, client_name
VerifyUpdateTables(recs) ==
    [i \in 1..Len(recs) |->
        [status |-> IF recs[i].upd = "true" THEN "Updated" ELSE "Pending",
         cid |-> IF recs[i].cid.kind = "none" THEN IdNotFound ELSE recs[i].cid,
         name |-> IF recs[i].name.kind = "none" THEN UnknownName
                  ELSE recs[i].name]]

----------------------------------------------------------------------------
(* GetAirTables.verify_and_update *)

\* the flag test dropped: every match is written
FlagUnsetAlways(r) == TRUE

\* not fields.get(update_column, False)
FlagUnset(r) == r.upd # "true"

\* the id comparison dropped: a match on the name alone
VerifyMatchNameOnly(r, q) == Normalized(r.name) = StrV(q.name)

\* name == client_full_name and id == client_id, both sides of the record
\* normalized
VerifyMatch(r, q) ==
    Normalized(r.name) = StrV(q.name) /\ Normalized(r.cid) = StrV(q.cid)

\* the loop of verify_and_update over the listed records: the record to
\* write ("write"), a match already flagged ("flagged"), no match ("none")
\* or an exception ("raised")
RECURSIVE VerifyScan(_, _)
VerifyScan(recs, q) ==
    IF recs = <<>> THEN NotFound
    ELSE LET r == Head(recs) IN
         IF NormalizeRaises(r.name) \/ NormalizeRaises(r.cid) THEN Raised
         ELSE IF VerifyMatch(r, q)
              THEN [kind |-> IF FlagUnset(r) THEN "write" ELSE "flagged",
                    id |-> r.id]
              ELSE VerifyScan(Tail(recs), q)

\* at.update(table_id, record['id'], {update_column: True}) on the remote table
AtUpdate(recs, id) ==
    [i \in 1..Len(recs) |->
        IF recs[i].id = id THEN [recs[i] EXCEPT !.upd = "true"] ELSE recs[i]]

----------------------------------------------------------------------------
(* GetAirTables.get_table *)

\* for r in self.at.iterate(table_id): if r not in data['records']: append
RECURSIVE AppendMissing(_, _)
AppendMissing(data, listed) ==
    IF listed = <<>> THEN data
    ELSE LET r == Head(listed) IN
         AppendMissing(
            IF \E i \in 1..Len(data) : data[i] = r THEN data
            ELSE Append(data, r),
            Tail(listed))

----------------------------------------------------------------------------
(* GetAirTables.get_client_database *)

\* lambda x: x[0] if isinstance(x, list) and len(x) == 1 else x
Unwrap(v) == IF v.kind = "list" /\ Len(v.items) = 1 THEN StrV(v.items[1]) ELSE v

UnwrapRow(r) == [r EXCEPT !.name = Unwrap(r.name), !.cid = Unwrap(r.cid)]

\* df[id_column] + ' | ' + df[name_column] raises TypeError on a list value
KeyRaises(r) == r.cid.kind = "list" \/ r.name.kind = "list"

\* the 'index' column of one row; a missing value leaves the key missing
KeyOf(r) ==
    IF r.cid.kind = "none" \/ r.name.kind = "none" THEN NoneV
    ELSE StrV(r.cid.items[1] \o <<" | ">> \o r.name.items[1])

\* row[col_x] if row[col_x] == row[col_y] else None
KeepIfEqual(x, y) == IF x.kind # "none" /\ x = y THEN x ELSE NoneV

\* the rows pd.merge(how='left') and the column loop give for one main row:
\* one per checking row with the same key, or one with the checking side
\* missing
RECURSIVE JoinRow(_, _)
JoinRow(m, chk) ==
    IF chk = <<>> THEN <<>>
    ELSE (IF KeyOf(Head(chk)) = KeyOf(m)
          THEN <<[src |-> m.id, index |-> KeyOf(m),
                  name |-> KeepIfEqual(m.name, Head(chk).name),
                  cid |-> KeepIfEqual(m.cid, Head(chk).cid)]>>
          ELSE <<>>) \o JoinRow(m, Tail(chk))

RECURSIVE LeftJoin(_, _)
LeftJoin(main, chk) ==
    IF main = <<>> THEN <<>>
    ELSE LET m == Head(main)
             hit == JoinRow(m, chk)
         IN (IF hit = <<>>
             THEN <<[src |-> m.id, index |-> KeyOf(m), name |-> NoneV,
                     cid |-> NoneV]>>
             ELSE hit) \o LeftJoin(Tail(main), chk)

\* the body of get_client_database on the two fetched views
Reconcile(main, chk) ==
    LET c2 == [i \in 1..Len(chk) |-> UnwrapRow(chk[i])] IN
    IF (\E i \in 1..Len(main) : KeyRaises(main[i]))
       \/ (\E i \in 1..Len(c2) : KeyRaises(c2[i]))
    THEN [raised |-> TRUE, rows |-> <<>>]
    ELSE [raised |-> FALSE, rows |-> LeftJoin(main, c2)]

\* get_table up to the DataFrame: the first page as listed by at.get, then
\* the records at.iterate lists that are not in it yet
GetTable(atGet, atIterate) == AppendMissing(FirstPage(atGet), AllPages(atIterate))

----------------------------------------------------------------------------
(* State outside a run of the server *)

\* the worker threads asyncio.to_thread runs the operations on
Threads == {1, 2}

Routes == {"protected", "table", "record_id", "verify_updates",
           "verify_and_update", "comments", "comment", "client_database"}
Limited == Routes \ {"protected"}
Addresses == {"10.0.0.1", "10.0.0.2"}

NoQuery == [name |-> <<>>, cid |-> <<>>]

Idle ==
    [route |-> "", addr |-> "", key |-> "", q |-> NoQuery, pc |-> "idle",
     inv |-> <<>>, seen |-> <<>>, data |-> <<>>, view |-> <<>>, lines |-> <<>>,
     rows |-> <<>>, target |-> NoId, status |-> 0, detail |-> "", ret |-> "",
     calls |-> 0, writes |-> <<>>, posted |-> 0, failed |-> FALSE]

NoLast == [op |-> "", failed |-> FALSE, raised |-> FALSE, id |-> NoId, rows |-> <<>>]

\* a direct call of one data-access operation: nothing of the server moves
ServerIdle ==
    /\ comments = <<>>
    /\ phase = "init"
    /\ pool = "none"
    /\ req = [t \in Threads |-> Idle]
    /\ nreq = 0
    /\ hits = <<>>

----------------------------------------------------------------------------
(* SpecMatch: get_record_id applied to a drawn table and query *)

InitMatch ==
    /\ records \in TablesOf(MaxRecords, [name : MatchNameValues, cid : MatchIdValues,
                                            upd : {"absent"}])
    /\ checking = <<>>
    /\ query \in Queries
    /\ last = NoLast
    /\ ServerIdle

CallGetRecordId ==
    /\ last.op = ""
    /\ \E fails \in BOOLEAN :
        last' = [NoLast EXCEPT !.op = "get_record_id", !.failed = fails,
                    !.id = GetRecordId(FirstPage(records), query, fails)]
    /\ UNCHANGED <<records, checking, comments, phase, pool, req, nreq, hits, query>>

NextMatch == CallGetRecordId

SpecMatch == InitMatch /\ [][NextMatch]_vars

----------------------------------------------------------------------------
(* SpecReconcile: get_client_database applied to two drawn tables *)

InitReconcile ==
    /\ records \in {t \in TablesOf(MaxRecords, [name : MainNameValues, cid : MainIdValues,
                                                    upd : {"absent"}]) : t # <<>>}
    /\ checking \in {t \in TablesOf(MaxRecords, [name : CheckingNameValues,
                                                     cid : CheckingIdValues,
                                                     upd : {"absent"}]) : t # <<>>}
    /\ query = NoQuery
    /\ last = NoLast
    /\ ServerIdle

\* get_table(main), get_table(checking), then the join; a failing remote call
\* raises out of get_client_database
CallGetClientDatabase ==
    /\ last.op = ""
    /\ \E fails \in BOOLEAN :
        LET out == Reconcile(GetTable(records, records), GetTable(checking, checking)) IN
        last' = [NoLast EXCEPT !.op = "get_client_database", !.failed = fails,
                    !.raised = fails \/ out.raised,
                    !.rows = IF fails THEN <<>> ELSE out.rows]
    /\ UNCHANGED <<records, checking, comments, phase, pool, req, nreq, hits, query>>

NextReconcile == CallGetClientDatabase

SpecReconcile == InitReconcile /\ [][NextReconcile]_vars

----------------------------------------------------------------------------
(* Spec: the server, from startup to termination                            *)
(*                                                                          *)
(* req[t] is the request thread t is handling: its inputs, its position pc, *)
(* what it has read, its response (status, detail) and what its operation   *)
(* returned (ret).  calls, writes and posted count the remote calls, field  *)
(* writes and comments it has issued; failed says one of its remote calls   *)
(* failed; inv is the table as it was when verify_and_update was invoked.   *)

ServedFields ==
    {[name |-> StrV(JoseNFD), cid |-> StrV(A1), upd |-> "absent"],
     [name |-> StrV(JoseNFD), cid |-> StrV(A1), upd |-> "true"],
     [name |-> StrV(Jose), cid |-> ListV(<<A1>>), upd |-> "absent"],
     [name |-> StrV(Jose), cid |-> StrV(A12), upd |-> "absent"]}

ServedQueries == {[name |-> JoseNFC, cid |-> A1], [name |-> Jose, cid |-> A1]}

Keys == {"missing", "wrong", "valid"}

\* the comparison with the valid key dropped: any key present is accepted
GetApiKeyPresent(key) == IF key = "missing" THEN 400 ELSE 0

\* get_api_key: the status of the HTTPException it raises, 0 when it returns
GetApiKey(key) ==
    IF key = "missing" THEN 400
    ELSE IF key # "valid" THEN 403
    ELSE 0

\* where the body of each route starts
StartPc(route) ==
    CASE route = "table" -> "get1"
      [] route = "client_database" -> "get1"
      [] route = "record_id" -> "rid"
      [] route = "verify_updates" -> "vus"
      [] route = "verify_and_update" -> "vu_get"
      [] route = "comments" -> "gc_iter"
      [] route = "comment" -> "post"
      [] OTHER -> "done"

Finish(r, status, detail, ret) ==
    [r EXCEPT !.pc = "done", !.status = status, !.detail = detail, !.ret = ret]

\* raise HTTPException(status_code=500, detail=str(e)) around a failed remote call
Http500(r) ==
    [Finish(r, 500, "remote_error_message", "raised") EXCEPT !.failed = TRUE]

\* an exception no handler catches: the framework's plain 500 response
Unhandled(r) ==
    [Finish(r, 500, "internal_server_error", "raised") EXCEPT !.failed = TRUE]

Called(r) == [r EXCEPT !.calls = r.calls + 1]

Init ==
    /\ records \in TablesOf(MaxRecords, ServedFields)
    /\ checking = <<>>
    /\ query = NoQuery
    /\ last = NoLast
    /\ ServerIdle

\* lifespan() up to its yield: aiomysql.create_pool returns or raises
Startup ==
    /\ phase = "init"
    /\ \E created \in BOOLEAN :
        IF created THEN phase' = "serving" /\ pool' = "open"
        ELSE phase' = "terminated" /\ pool' = "none"
    /\ UNCHANGED <<records, checking, comments, req, nreq, hits, last, query>>

\* lifespan() resumed after its yield: db_pool.close(), wait_closed()
Shutdown ==
    /\ phase = "serving"
    /\ \A t \in Threads : req[t].pc = "idle"
    /\ phase' = "terminated"
    /\ pool' = IF pool = "open" THEN "closed" ELSE pool
    /\ UNCHANGED <<records, checking, comments, req, nreq, hits, last, query>>

\* an exception raised into lifespan() at its yield: no try/finally holds
\* the code after it, so the generator ends without running it
LifespanRaise ==
    /\ phase = "serving"
    /\ phase' = "terminated"
    /\ req' = [t \in Threads |-> Idle]
    /\ UNCHANGED <<records, checking, comments, pool, nreq, hits, last, query>>

\* a request arrives, its get_api_key dependency runs and the first idle
\* thread takes its operation
Receive(t, route, key, q, target) ==
    /\ phase = "serving"
    /\ req[t].pc = "idle"
    /\ \A u \in Threads : u < t => req[u].pc # "idle"
    /\ nreq < MaxRequests
    /\ nreq' = nreq + 1
    /\ LET r == [Idle EXCEPT !.route = route, !.key = key, !.q = q,
                             !.target = target]
           denied == GetApiKey(key)
       IN req' = [req EXCEPT ![t] =
            IF denied # 0 THEN Finish(r, denied, "http_detail", "")
            ELSE IF route = "protected" THEN Finish(r, 200, "", "")
            ELSE [r EXCEPT !.pc = StartPc(route),
                           !.inv = IF route = "verify_and_update" THEN records
                                   ELSE <<>>]]
    /\ UNCHANGED <<records, checking, comments, phase, pool, hits, last, query>>

ReceiveAny(t) ==
    \E route \in Routes, key \in Keys :
        \E q \in (IF route \in {"record_id", "verify_and_update"}
                  THEN ServedQueries ELSE {NoQuery}) :
            \E target \in (IF route = "comment"
                           THEN {RecId(1), RecId(MaxRecords)} ELSE {NoId}) :
                Receive(t, route, key, q, target)

\* get_table: data = self.at.get(table_id)
GtGet(t) ==
    /\ phase = "serving"
    /\ req[t].pc \in {"get1", "get2"}
    /\ \E fails \in BOOLEAN :
        LET r == Called(req[t]) IN
        req' = [req EXCEPT ![t] =
            IF fails THEN Http500(r)
            ELSE [r EXCEPT !.seen = FirstPage(records),
                           !.pc = IF r.pc = "get1" THEN "iter1" ELSE "iter2"]]
    /\ UNCHANGED <<records, checking, comments, phase, pool, nreq, hits, last, query>>

\* get_table: for r in self.at.iterate(table_id): append when not in data
GtIter(t) ==
    /\ phase = "serving"
    /\ req[t].pc \in {"iter1", "iter2"}
    /\ \E fails \in BOOLEAN :
        LET r == Called(req[t]) IN
        req' = [req EXCEPT ![t] =
            IF fails THEN Http500(r)
            ELSE [r EXCEPT !.data = AppendMissing(r.seen, AllPages(records)),
                           !.pc = IF r.pc = "iter1" THEN "schema1" ELSE "schema2"]]
    /\ UNCHANGED <<records, checking, comments, phase, pool, nreq, hits, last, query>>

\* get_table: get_base_schema and the DataFrame; then the route's response,
\* or for /client_database the second get_table and the join.  The join of
\* an empty frame may raise or give no rows.
GtSchema(t) ==
    /\ phase = "serving"
    /\ req[t].pc \in {"schema1", "schema2"}
    /\ \E fails \in BOOLEAN, emptyRaises \in BOOLEAN :
        LET r == Called(req[t])
            out == Reconcile(r.view, r.data)
        IN req' = [req EXCEPT ![t] =
            IF fails THEN Http500(r)
            ELSE IF r.route = "table"
                 THEN [Finish(r, 200, "", "rows") EXCEPT !.rows = r.data]
            ELSE IF r.pc = "schema1"
                 THEN [r EXCEPT !.view = r.data, !.pc = "get2"]
            ELSE IF out.raised \/ (emptyRaises /\ (r.view = <<>> \/ r.data = <<>>))
                 THEN Finish(r, 500, "exception_message", "raised")
            ELSE [Finish(r, 200, "", "rows") EXCEPT !.rows = out.rows]]
    /\ UNCHANGED <<records, checking, comments, phase, pool, nreq, hits, last, query>>

\* /record_id: get_record_id, then 200 with the id or 404
RecordIdCall(t) ==
    /\ phase = "serving"
    /\ req[t].pc = "rid"
    /\ \E fails \in BOOLEAN :
        LET r == [Called(req[t]) EXCEPT !.failed = fails]
            id == GetRecordId(FirstPage(records), r.q, fails)
        IN req' = [req EXCEPT ![t] =
            IF id # NoId THEN [Finish(r, 200, "", "id") EXCEPT !.target = id]
            ELSE Finish(r, 404, "http_detail", "none")]
    /\ UNCHANGED <<records, checking, comments, phase, pool, nreq, hits, last, query>>

\* /verify_updates: verify_update_tables, with no handler around it
VerifyUpdatesCall(t) ==
    /\ phase = "serving"
    /\ req[t].pc = "vus"
    /\ \E fails \in BOOLEAN :
        LET r == Called(req[t]) IN
        req' = [req EXCEPT ![t] =
            IF fails THEN Unhandled(r)
            ELSE [Finish(r, 200, "", "lines") EXCEPT
                    !.lines = VerifyUpdateTables(FirstPage(records))]]
    /\ UNCHANGED <<records, checking, comments, phase, pool, nreq, hits, last, query>>

\* verify_and_update: the listing and the loop, up to the record to write
VuGet(t) ==
    /\ phase = "serving"
    /\ req[t].pc = "vu_get"
    /\ \E fails \in BOOLEAN :
        LET r == Called(req[t])
            out == VerifyScan(FirstPage(records), r.q)
        IN req' = [req EXCEPT ![t] =
            IF fails THEN [Finish(r, 404, "http_detail", "false") EXCEPT !.failed = TRUE]
            ELSE IF out.kind = "flagged" THEN Finish(r, 200, "", "true")
            ELSE IF out.kind = "write" THEN [r EXCEPT !.pc = "vu_update", !.target = out.id]
            ELSE Finish(r, 404, "http_detail", "false")]
    /\ UNCHANGED <<records, checking, comments, phase, pool, nreq, hits, last, query>>

\* verify_and_update: self.at.update(...), the print, return True
VuUpdate(t) ==
    /\ phase = "serving"
    /\ req[t].pc = "vu_update"
    /\ \E fails \in BOOLEAN :
        LET r == Called(req[t]) IN
        IF fails
        THEN /\ req' = [req EXCEPT ![t] =
                    [Finish(r, 404, "http_detail", "false") EXCEPT !.failed = TRUE]]
             /\ UNCHANGED records
        ELSE /\ records' = AtUpdate(records, r.target)
             /\ req' = [req EXCEPT ![t] =
                    [Finish(r, 200, "", "true") EXCEPT
                        !.writes = Append(r.writes, r.target)]]
    /\ UNCHANGED <<checking, comments, phase, pool, nreq, hits, last, query>>

\* get_comments: for record in self.at.iterate(table_id)
GcIter(t) ==
    /\ phase = "serving"
    /\ req[t].pc = "gc_iter"
    /\ \E fails \in BOOLEAN :
        LET r == Called(req[t]) IN
        req' = [req EXCEPT ![t] =
            IF fails THEN Http500(r)
            ELSE [r EXCEPT !.seen = AllPages(records), !.pc = "gc_fetch"]]
    /\ UNCHANGED <<records, checking, comments, phase, pool, nreq, hits, last, query>>

\* get_comments: one requests.get per listed record, raising on a non-200
GcFetch(t) ==
    /\ phase = "serving"
    /\ req[t].pc = "gc_fetch"
    /\ \E fails \in BOOLEAN :
        LET r == req[t] IN
        req' = [req EXCEPT ![t] =
            IF r.seen = <<>> THEN Finish(r, 200, "", "comments")
            ELSE IF fails THEN Http500(Called(r))
            ELSE Finish([r EXCEPT !.calls = r.calls + Len(r.seen)], 200, "", "comments")]
    /\ UNCHANGED <<records, checking, comments, phase, pool, nreq, hits, last, query>>

\* /comment: create_comment's requests.post answers 200, answers another
\* status, or raises
CommentPost(t) ==
    /\ phase = "serving"
    /\ req[t].pc = "post"
    /\ \E outcome \in {"ok", "non200", "exception"} :
        LET r == Called(req[t]) IN
        /\ outcome = "ok" => \E i \in 1..Len(records) : records[i].id = r.target
        /\ IF outcome = "ok"
           THEN /\ comments' = Append(comments, r.target)
                /\ req' = [req EXCEPT ![t] =
                        [Finish(r, 200, "", "true") EXCEPT !.posted = r.posted + 1]]
           ELSE /\ UNCHANGED comments
                /\ req' = [req EXCEPT ![t] =
                        IF outcome = "non200"
                        THEN [Finish(r, 500, "http_detail", "false") EXCEPT
                                !.failed = TRUE]
                        ELSE Unhandled(r)]
    /\ UNCHANGED <<records, checking, phase, pool, nreq, hits, last, query>>

\* the response is sent and the thread takes the next request
Respond(t) ==
    /\ phase = "serving"
    /\ req[t].pc = "done"
    /\ req' = [req EXCEPT ![t] = Idle]
    /\ UNCHANGED <<records, checking, comments, phase, pool, nreq, hits, last, query>>

Next ==
    \/ Startup
    \/ Shutdown
    \/ LifespanRaise
    \/ \E t \in Threads :
        \/ ReceiveAny(t)
        \/ GtGet(t)
        \/ GtIter(t)
        \/ GtSchema(t)
        \/ RecordIdCall(t)
        \/ VerifyUpdatesCall(t)
        \/ VuGet(t)
        \/ VuUpdate(t)
        \/ GcIter(t)
        \/ GcFetch(t)
        \/ CommentPost(t)
        \/ Respond(t)

Spec == Init /\ [][Next]_vars

----------------------------------------------------------------------------
(* SpecRate: the limiter in front of the route bodies                       *)
(*                                                                          *)
(* Limiter(key_func=get_remote_address) with @limiter.limit("L/minute"):    *)
(* one counter per route and caller address, counting the calls of the      *)
(* current one-minute window; a call is let through while the counter,      *)
(* after counting it, does not exceed L.                                    *)

\* the L of each route's @limiter.limit("L/minute"); 0 when it has none
Limit(route) ==
    CASE route = "table" -> 100
      [] route = "record_id" -> 200
      [] route = "verify_updates" -> 150
      [] route = "verify_and_update" -> 50
      [] route = "comments" -> 100
      [] route = "comment" -> 50
      [] route = "client_database" -> 20
      [] OTHER -> 0

\* one counter per address, shared by all routes
LimitKeyByAddress(route, addr) == <<"table", addr>>

\* the limiter's storage key of a request
LimitKey(route, addr) == <<route, addr>>

InitRate ==
    /\ records = <<>>
    /\ checking = <<>>
    /\ comments = <<>>
    /\ query = NoQuery
    /\ last = NoLast
    /\ phase = "serving"
    /\ pool = "open"
    /\ req = [t \in Threads |-> Idle]
    /\ nreq = 0
    /\ hits = [k \in Limited \X Addresses |-> 0]

\* a request from addr that passed get_api_key reaches the limiter: it is
\* refused, or the route body is about to start (pc at its first remote call)
RateCall(route, addr) ==
    LET k == LimitKey(route, addr)
        r == [Idle EXCEPT !.route = route, !.addr = addr, !.key = "valid"]
        others == {j \in DOMAIN hits : j # k /\ hits[j] > 0}
    IN
    /\ hits[k] < Limit(route) + Overrun
    /\ Cardinality(others) <= 1
    /\ hits[k] < Burst \/ \A j \in others : hits[j] <= Burst
    /\ hits' = [hits EXCEPT ![k] = hits[k] + 1]
    /\ req' = [req EXCEPT ![1] =
            IF hits[k] + 1 > Limit(route)
            THEN Finish(r, 429, "rate_limit_exceeded", "")
            ELSE [r EXCEPT !.pc = StartPc(route)]]
    /\ UNCHANGED <<records, checking, comments, phase, pool, nreq, last, query>>

\* the one-minute window of a counter ends
WindowExpire(k) ==
    /\ hits[k] > 0
    /\ hits' = [hits EXCEPT ![k] = 0]
    /\ UNCHANGED <<records, checking, comments, phase, pool, req, nreq, last, query>>

NextRate ==
    \/ \E route \in Limited, addr \in Addresses : RateCall(route, addr)
    \/ \E k \in Limited \X Addresses : WindowExpire(k)

SpecRate == InitRate /\ [][NextRate]_vars

----------------------------------------------------------------------------
(* C3: get_record_id returns the first record, in listing order, whose      *)
(* NFKC-normalized name equals the query name and whose id field contains   *)
(* the query id, and none exactly when no record of the table is such a     *)
(* record; records before it that do not match (name differs, id not        *)
(* contained, a field missing) do not keep it from being returned.          *)

ClaimContains(cid, v) ==
    \/ v.kind = "str" /\ IsSubstring(cid, v.items[1])
    \/ v.kind = "list" /\ \E i \in 1..Len(v.items) : v.items[i] = cid

ClaimMatch(r, q) ==
    /\ r.name.kind = "str"
    /\ NFKC(r.name.items[1]) = q.name
    /\ ClaimContains(q.cid, r.cid)

ClaimFirstMatch(recs, q) ==
    IF \E i \in 1..Len(recs) : ClaimMatch(recs[i], q)
    THEN recs[CHOOSE i \in 1..Len(recs) :
                /\ ClaimMatch(recs[i], q)
                /\ \A j \in 1..(i - 1) : ~ClaimMatch(recs[j], q)].id
    ELSE NoId

C3_FirstMatchReturned ==
    (last.op = "get_record_id" /\ ~last.failed)
        => last.id = ClaimFirstMatch(records, query)

----------------------------------------------------------------------------
(* C7: in the reconciled output the id and the name are kept or nulled      *)
(* independently: a main row whose checking row has the same id keeps its   *)
(* id, and keeps its name exactly when the checking row's name is equal.    *)

\* the checking rows whose (unwrapped) id equals the main row's
Corresponding(m) ==
    {j \in 1..Len(checking) : Unwrap(checking[j].cid) = m.cid}

MainRow(id) == records[CHOOSE i \in 1..Len(records) : records[i].id = id]

C7_ColumnsIndependent ==
    (last.op = "get_client_database" /\ ~last.raised) =>
        \A k \in 1..Len(last.rows) :
            LET m == MainRow(last.rows[k].src) IN
            \A j \in Corresponding(m) :
                Cardinality(Corresponding(m)) = 1 =>
                    /\ last.rows[k].cid = m.cid
                    /\ last.rows[k].name =
                         (IF Unwrap(checking[j].name) = m.name THEN m.name ELSE NoneV)

----------------------------------------------------------------------------
(* The records verify_and_update is meant to match: name and id non-empty   *)
(* strings, both equal to the query's after NFKC normalization.             *)

ClaimVerifyMatch(r, q) ==
    /\ r.name.kind = "str" /\ r.name.items[1] # <<>>
    /\ NFKC(r.name.items[1]) = q.name
    /\ r.cid.kind = "str" /\ r.cid.items[1] # <<>>
    /\ NFKC(r.cid.items[1]) = q.cid

\* index of the first such record, 0 when there is none
FirstVerifyMatch(recs, q) ==
    IF \E i \in 1..Len(recs) : ClaimVerifyMatch(recs[i], q)
    THEN CHOOSE i \in 1..Len(recs) :
            /\ ClaimVerifyMatch(recs[i], q)
            /\ \A j \in 1..(i - 1) : ~ClaimVerifyMatch(recs[j], q)
    ELSE 0

\* thread t runs verify_and_update and the first record matching its query
\* had the update flag set (flagged) or not set (~flagged) at invocation
Invoked(t, flagged) ==
    /\ req[t].route = "verify_and_update"
    /\ req[t].key = "valid"
    /\ FirstVerifyMatch(req[t].inv, req[t].q) # 0
    /\ (req[t].inv[FirstVerifyMatch(req[t].inv, req[t].q)].upd = "true") = flagged

\* the listing reaches that record: it is on the page at.get returns and no
\* record before it has a list for its name or id (normalize raises on one)
Reachable(t) ==
    LET i == FirstVerifyMatch(req[t].inv, req[t].q) IN
    /\ i <= PageSize
    /\ \A j \in 1..(i - 1) :
        req[t].inv[j].name.kind # "list" /\ req[t].inv[j].cid.kind # "list"

C2_OneWriteOneComment ==
    \A t \in Threads :
        (Invoked(t, FALSE) /\ req[t].pc = "done" /\ ~req[t].failed /\ Reachable(t)) =>
            /\ req[t].writes =
                 <<req[t].inv[FirstVerifyMatch(req[t].inv, req[t].q)].id>>
            /\ req[t].posted = 1
            /\ req[t].ret = "true"

(* C4: on every route a request without the X-API-Key header is answered    *)
(* 400 and one with a wrong key 403, and neither issues any call to the     *)
(* remote service; a request with the right key on /protected is answered   *)
(* 200.                                                                     *)
C4_KeyChecked ==
    \A t \in Threads :
        LET r == req[t] IN
        r.pc # "idle" =>
            /\ r.key = "missing" => (r.pc = "done" /\ r.status = 400)
            /\ r.key = "wrong" => (r.pc = "done" /\ r.status = 403)
            /\ r.key # "valid" => (r.calls = 0 /\ r.writes = <<>> /\ r.posted = 0)
            /\ (r.key = "valid" /\ r.route = "protected")
                  => (r.pc = "done" /\ r.status = 200)

C4_Witness ==
    /\ req[1].route = "verify_and_update" /\ req[1].key = "wrong"
    /\ req[1].status = 403
    /\ req[2].route = "comment" /\ req[2].key = "missing"
    /\ req[2].status = 400

(* C6: the rows get_table returns for a table of N records are exactly N    *)
(* and no two come from the same record identifier, also when a record is   *)
(* modified between the first-page fetch and the iteration.                 *)
C6_NoDuplicateRows ==
    \A t \in Threads :
        (req[t].route = "table" /\ req[t].pc = "done" /\ req[t].status = 200) =>
            /\ Len(req[t].rows) = Len(records)
            /\ \A i, j \in 1..Len(req[t].rows) :
                req[t].rows[i].id = req[t].rows[j].id => i = j

(* C8: a failed remote call during an authenticated request is answered     *)
(* 500 with the remote error message on the read paths, is swallowed into   *)
(* none/false and answered 404 on the matcher and verify-and-update paths,  *)
(* and on the comment path create_comment returns false without raising     *)
(* and the answer is 500; the answer is never a success.                    *)
C8_FailurePolicy ==
    \A t \in Threads :
        LET r == req[t] IN
        (r.pc = "done" /\ r.key = "valid" /\ r.failed) =>
            /\ r.status # 200
            /\ r.route \in {"table", "verify_updates", "comments", "client_database"}
                  => (r.status = 500 /\ r.detail = "remote_error_message")
            /\ r.route \in {"record_id", "verify_and_update"}
                  => (r.status = 404 /\ r.ret \in {"none", "false"})
            /\ r.route = "comment" => (r.status = 500 /\ r.ret = "false")

(* C9: once the pool is acquired its release runs on every exit path: the   *)
(* process is never terminated with the pool still open.                    *)
C9_PoolReleased == phase = "terminated" => pool # "open"

(* C10: the only field write is verify_and_update setting the update flag   *)
(* to true on the first record matching its query: every step leaves the    *)
(* table's length and every other record unchanged, each call writes at     *)
(* most one record, the other operations write none, and a flag that is     *)
(* true stays true.                                                         *)
C10_OnlyFlagWrites ==
    [][/\ Len(records') = Len(records)
       /\ \A i \in 1..Len(records) :
            /\ records[i].upd = "true" => records'[i].upd = "true"
            /\ records'[i] # records[i] =>
                /\ records'[i] = [records[i] EXCEPT !.upd = "true"]
                /\ \A j \in 1..Len(records) : j # i => records'[j] = records[j]
                /\ \E t \in Threads :
                    /\ req[t].route = "verify_and_update"
                    /\ req[t].pc = "vu_update"
                    /\ i = FirstVerifyMatch(records, req[t].q)
                    /\ req'[t].writes = <<records[i].id>>
       /\ \A t \in Threads :
            /\ Len(req'[t].writes) <= 1
            /\ req'[t].route # "verify_and_update" => req'[t].writes = <<>>
      ]_vars

C10_Witness ==
    /\ req[1].route = "verify_and_update" /\ req[1].pc = "done"
    /\ req[1].writes # <<>>
    /\ req[2].route = "client_database" /\ req[2].pc = "done"
    /\ req[2].status = 200

(* C5: per route and caller address the first L calls of a window are let   *)
(* through and the next is refused before the route body makes any remote   *)
(* call, with L = 100, 200, 150, 50, 100, 50, 20 for table, record_id,      *)
(* verify_updates, verify_and_update, comments, comment, client_database;   *)
(* a call changes no counter but that of its own route and address.         *)

ClaimedCeiling ==
    [table |-> 100, record_id |-> 200, verify_updates |-> 150,
     verify_and_update |-> 50, comments |-> 100, comment |-> 50,
     client_database |-> 20]

C5_Ceilings ==
    [][\A k \in Limited \X Addresses :
        hits'[k] \notin {hits[k], 0} =>
            /\ hits'[k] = hits[k] + 1
            /\ \A j \in Limited \X Addresses : j # k => hits'[j] = hits[j]
            /\ req'[1].route = k[1] /\ req'[1].addr = k[2]
            /\ req'[1].calls = 0 /\ req'[1].writes = <<>>
            /\ IF hits[k] < ClaimedCeiling[k[1]]
               THEN req'[1].pc = StartPc(k[1]) /\ req'[1].status = 0
               ELSE req'[1].pc = "done" /\ req'[1].status = 429
      ]_vars

\* the 21st call to client_database in a window is refused, with another
\* caller's counter and another route's untouched
C5_Witness ==
    /\ hits[<<"client_database", "10.0.0.1">>] = 21
    /\ req[1].route = "client_database" /\ req[1].addr = "10.0.0.1"
    /\ req[1].status = 429
    /\ hits[<<"client_database", "10.0.0.2">>] = 2

====
